---- MODULE Spec2Model ----
(***************************************************************************)
(* Voice-chat session of src/src/f5_tts/infer/infer_gradio.py.             *)
(*                                                                         *)
(* The session is the Gradio Blocks app `app_chat`, started by main() with *)
(* app.queue().launch() (USING_SPACES false, so gpu_decorator returns the  *)
(* handler itself).  Its state is                                          *)
(*   - conversation_state : a gr.State, held by the server for the session *)
(*     and passed to a handler BY REFERENCE, so conv_state.append(...)     *)
(*     changes the session's log at once, before the handler returns;      *)
(*   - chatbot_interface, audio_output_chat, system_prompt_chat : component*)
(*     values held by the page.  A handler receives the value the page     *)
(*     sent when the event was raised and the page takes the handler's     *)
(*     return value; a handler that raises returns nothing.                *)
(* Every event listener goes through the queue; a function runs at most    *)
(* one call at a time, and the .then() link of a chain is raised when the  *)
(* previous link has finished, whether it succeeded or raised.             *)
(*                                                                         *)
(* Texts are sequences of one-character strings.  A Python value that may  *)
(* be None is a sequence of length 0 (None) or 1 (Some(v)).                *)
(***************************************************************************)
EXTENDS Integers, Sequences, FiniteSets, TLC

VARIABLES
    conversation_state,   \* gr.State: the Conversation Log
    chatbot_interface,    \* gr.Chatbot value: the Transcript
    system_prompt_chat,   \* gr.Textbox value: the current system prompt
    audio_output_chat,    \* gr.Audio value: None or the text last synthesized
    pending_process,      \* queued calls of process_audio_input
    pending_audio,        \* queued calls of generate_audio_response
    pa,                   \* the running call of process_audio_input
    ga,                   \* the running call of generate_audio_response
    nreq,                 \* number of turn requests raised so far
    turn_state,           \* Turn Controller state of each turn request
    gen_calls,            \* calls of generate_response made for each turn
    generated,            \* reply generate_response returned to each turn
    txt_op,               \* text helper applied: "none", "input" or its name
    txt_in,               \* the helper's argument
    txt_out               \* the helper's return value

session_vars == <<conversation_state, chatbot_interface, system_prompt_chat,
                  audio_output_chat, pending_process, pending_audio, pa, ga,
                  nreq, turn_state, gen_calls, generated>>

text_vars == <<txt_op, txt_in, txt_out>>

vars == <<session_vars, text_vars>>

----------------------------------------------------------------------------
(* Bounds and input sets *)

MaxTurns == 2

Turns == 1..MaxTurns

None == <<>>

Some(v) == <<v>>

\* Python truth value of an optional text: None and "" are false
IsFalsy(o) == o = None \/ o = Some(<<>>)

UserTexts == {<<>>, <<" ">>, <<"h">>}

Replies == {<<>>, <<"r">>, <<"s">>}

AudioPaths == {None, Some(<<"a">>)}

Triggers == {"stop_recording", "submit", "click"}

DEFAULT_SYSTEM_PROMPT == <<"No eres un asistente de IA, ...">>

Prompts == {DEFAULT_SYSTEM_PROMPT, <<"p">>}

----------------------------------------------------------------------------
(* Pure helpers *)

IsSpace(c) == c \in {" ", "\t", "\n", "\r"}

RECURSIVE lstrip(_)
lstrip(s) == IF s = <<>> THEN s
             ELSE IF IsSpace(Head(s)) THEN lstrip(Tail(s)) ELSE s

RECURSIVE rstrip(_)
rstrip(s) == IF s = <<>> THEN s
             ELSE IF IsSpace(s[Len(s)])
                  THEN rstrip(SubSeq(s, 1, Len(s) - 1)) ELSE s

\* a blank test that forgets to strip: `not text` for `not text.strip()`
strip_unstripped(s) == s

\* str.strip()
strip(s) == rstrip(lstrip(s))

Last(s) == s[Len(s)]

Message(role, content) == [role |-> role, content |-> content]

\* history[-1] = v
SetLast(s, v) == [s EXCEPT ![Len(s)] = v]

IdleCall == [pc |-> "idle", turn |-> 0, trigger |-> "", text |-> <<>>,
             history |-> <<>>, conv_state |-> <<>>, is_session |-> FALSE]

IdleAudio == [pc |-> "idle", turn |-> 0, text |-> <<>>]

----------------------------------------------------------------------------
(* Initial state: the values the components are constructed with *)

SessionInit ==
    /\ conversation_state = <<Message("system", DEFAULT_SYSTEM_PROMPT)>>
    /\ chatbot_interface = <<>>
    /\ system_prompt_chat = DEFAULT_SYSTEM_PROMPT
    /\ audio_output_chat = None
    /\ pending_process = <<>>
    /\ pending_audio = <<>>
    /\ pa = IdleCall
    /\ ga = IdleAudio
    /\ nreq = 0
    /\ turn_state = [k \in Turns |-> "none"]
    /\ gen_calls = [k \in Turns |-> 0]
    /\ generated = [k \in Turns |-> None]

Init ==
    /\ SessionInit
    /\ txt_op = "none"
    /\ txt_in = <<>>
    /\ txt_out = <<>>

----------------------------------------------------------------------------
(* Event chains: stop_recording / submit / click *)

\* The page raises `.then(generate_audio_response, inputs=[chatbot_interface, ...])`
\* with the Transcript it shows once the first link has finished.
RaiseThen(k, shown) ==
    pending_audio' = Append(pending_audio, [turn |-> k, history |-> shown])

\* A listener is not raised again while its own call is queued or running.
ListenerBusy(tr) ==
    \/ pa.pc # "idle" /\ pa.trigger = tr
    \/ \E i \in 1..Len(pending_process) : pending_process[i].trigger = tr

\* The user stops a recording, submits the text box or clicks "Enviar":
\* the page sends the inputs it holds, the Transcript included.
TurnRequest(tr, audio_path, text) ==
    /\ nreq < MaxTurns
    /\ ~ListenerBusy(tr)
    /\ tr = "stop_recording" => audio_path # None
    /\ nreq' = nreq + 1
    /\ pending_process' = Append(pending_process,
            [turn |-> nreq + 1, trigger |-> tr, audio_path |-> audio_path,
             text |-> text, history |-> chatbot_interface])
    /\ turn_state' = [turn_state EXCEPT ![nreq + 1] = "AwaitingUserInput"]
    /\ UNCHANGED <<conversation_state, chatbot_interface, system_prompt_chat,
                   audio_output_chat, pending_audio, pa, ga, gen_calls,
                   generated>>
    /\ UNCHANGED text_vars

----------------------------------------------------------------------------
(* process_audio_input *)

\* preprocess_ref_audio_text(audio_path, text)[1]: the text the reference-audio
\* preprocessor hands back for a recording (it transcribes, and may be blank)
Transcripts == UserTexts

\* the user message stored under the wrong role
append_user_as_system(conv_state, text) ==
    Append(conv_state, Message("system", text))

\* conv_state.append({"role": "user", "content": text})
append_user(conv_state, text) == Append(conv_state, Message("user", text))

\* conv_state.append({"role": "assistant", "content": response})
append_assistant(conv_state, response) ==
    Append(conv_state, Message("assistant", response))

\* A call of process_audio_input starts: it takes the request at the head of
\* the queue, the Transcript the page sent with it, and the session's list.
StartedCall(e, pc, text, history, conv_state) ==
    [pc |-> pc, turn |-> e.turn, trigger |-> e.trigger, text |-> text,
     history |-> history, conv_state |-> conv_state, is_session |-> TRUE]

\* The session's log after the running call changed its list in place: the
\* change shows in the session only while the session still holds that list.
SessionLogAfter(conv_state) ==
    IF pa.is_session THEN conv_state ELSE conversation_state

\* Lines 255-256: no recording and a blank text, `return history, conv_state, ""`
\* at once.  The page takes the returned history as the Transcript;
\* conv_state is the session's own list, returned as it is.
ProcessReturnEmpty ==
    /\ pa.pc = "idle"
    /\ pending_process # <<>>
    /\ LET e == Head(pending_process) IN
       /\ IsFalsy(e.audio_path)
       /\ strip(e.text) = <<>>
       /\ chatbot_interface' = e.history
       /\ RaiseThen(e.turn, e.history)
       /\ turn_state' = [turn_state EXCEPT ![e.turn] = "Empty"]
    /\ pending_process' = Tail(pending_process)
    /\ UNCHANGED <<conversation_state, system_prompt_chat, audio_output_chat,
                   pa, ga, nreq, gen_calls, generated>>
    /\ UNCHANGED text_vars

\* Lines 255-267 without a recording: the user message goes into the
\* session's list in place, the pending entry into the handler's copy of the
\* Transcript, and generate_response is called.
ProcessBegin ==
    /\ pa.pc = "idle"
    /\ pending_process # <<>>
    /\ LET e == Head(pending_process) IN
       /\ IsFalsy(e.audio_path)
       /\ strip(e.text) # <<>>
       /\ conversation_state' = append_user(conversation_state, e.text)
       /\ pa' = StartedCall(e, "generating", e.text,
                            Append(e.history, <<e.text, None>>),
                            append_user(conversation_state, e.text))
       /\ turn_state' = [turn_state EXCEPT ![e.turn] = "GeneratingReply"]
       /\ gen_calls' = [gen_calls EXCEPT ![e.turn] = @ + 1]
    /\ pending_process' = Tail(pending_process)
    /\ UNCHANGED <<chatbot_interface, system_prompt_chat, audio_output_chat,
                   pending_audio, ga, nreq, generated>>
    /\ UNCHANGED text_vars

\* Lines 255-259 with a recording: the call waits in
\* preprocess_ref_audio_text for the transcription.
ProcessTranscribe ==
    /\ pa.pc = "idle"
    /\ pending_process # <<>>
    /\ LET e == Head(pending_process) IN
       /\ ~IsFalsy(e.audio_path)
       /\ pa' = StartedCall(e, "preprocess_ref_audio_text", e.text,
                            e.history, conversation_state)
       /\ turn_state' = [turn_state EXCEPT ![e.turn] = "Transcribing"]
    /\ pending_process' = Tail(pending_process)
    /\ UNCHANGED <<conversation_state, chatbot_interface, system_prompt_chat,
                   audio_output_chat, pending_audio, ga, nreq, gen_calls,
                   generated>>
    /\ UNCHANGED text_vars

\* Lines 259-262: the transcription is blank, `return history, conv_state, ""`.
\* The history and the list the call took when it started become the
\* Transcript and the session's log.
TranscribeReturnEmpty(text) ==
    /\ pa.pc = "preprocess_ref_audio_text"
    /\ strip(text) = <<>>
    /\ chatbot_interface' = pa.history
    /\ conversation_state' = pa.conv_state
    /\ RaiseThen(pa.turn, pa.history)
    /\ turn_state' = [turn_state EXCEPT ![pa.turn] = "Empty"]
    /\ pa' = IdleCall
    /\ UNCHANGED <<system_prompt_chat, audio_output_chat, pending_process,
                   ga, nreq, gen_calls, generated>>
    /\ UNCHANGED text_vars

\* Line 259 raises: the handler returns nothing, the page keeps what it
\* shows and the session the list it holds.
ProcessInputFail ==
    /\ pa.pc = "preprocess_ref_audio_text"
    /\ RaiseThen(pa.turn, chatbot_interface)
    /\ turn_state' = [turn_state EXCEPT ![pa.turn] = "InputError"]
    /\ pa' = IdleCall
    /\ UNCHANGED <<conversation_state, chatbot_interface, system_prompt_chat,
                   audio_output_chat, pending_process, ga, nreq, gen_calls,
                   generated>>
    /\ UNCHANGED text_vars

\* Lines 259-267: the transcription is not blank.  The user message goes
\* into the list the call took when it started, the pending entry into the
\* handler's copy of the Transcript, and generate_response is called.
TranscribeReturn(text) ==
    /\ pa.pc = "preprocess_ref_audio_text"
    /\ strip(text) # <<>>
    /\ conversation_state' = SessionLogAfter(append_user(pa.conv_state, text))
    /\ pa' = [pa EXCEPT !.pc = "generating",
                        !.text = text,
                        !.history = Append(pa.history, <<text, None>>),
                        !.conv_state = append_user(pa.conv_state, text)]
    /\ turn_state' = [turn_state EXCEPT ![pa.turn] = "GeneratingReply"]
    /\ gen_calls' = [gen_calls EXCEPT ![pa.turn] = @ + 1]
    /\ UNCHANGED <<chatbot_interface, system_prompt_chat, audio_output_chat,
                   pending_process, pending_audio, ga, nreq, generated>>
    /\ UNCHANGED text_vars

\* Lines 269-272: generate_response returned `response`.  The returned
\* history and conv_state become the Transcript and the session's log.
GenerateReturn(response) ==
    /\ pa.pc = "generating"
    /\ LET conv_state == append_assistant(pa.conv_state, response)
           history == SetLast(pa.history, <<pa.text, Some(response)>>)
       IN /\ conversation_state' = conv_state
          /\ chatbot_interface' = history
          /\ RaiseThen(pa.turn, history)
    /\ generated' = [generated EXCEPT ![pa.turn] = Some(response)]
    /\ turn_state' = [turn_state EXCEPT ![pa.turn] = "Replied"]
    /\ pa' = IdleCall
    /\ UNCHANGED <<system_prompt_chat, audio_output_chat, pending_process,
                   ga, nreq, gen_calls>>
    /\ UNCHANGED text_vars

\* generate_response raises at line 267: nothing is returned, so the page
\* keeps the Transcript it shows and the session keeps the list it holds.
GenerateFail ==
    /\ pa.pc = "generating"
    /\ RaiseThen(pa.turn, chatbot_interface)
    /\ turn_state' = [turn_state EXCEPT ![pa.turn] = "GenerationError"]
    /\ pa' = IdleCall
    /\ UNCHANGED <<conversation_state, chatbot_interface, system_prompt_chat,
                   audio_output_chat, pending_process, ga, nreq, gen_calls,
                   generated>>
    /\ UNCHANGED text_vars

----------------------------------------------------------------------------
(* generate_audio_response *)

\* Lines 277-282: `return None` when there is nothing to speak
NothingToSpeak(history, ref_audio) ==
    IF history = <<>> \/ ~ref_audio THEN TRUE
    ELSE IsFalsy(Last(history)[2])

AudioSkip ==
    /\ ga.pc = "idle"
    /\ pending_audio # <<>>
    /\ LET e == Head(pending_audio) IN
       /\ \E ref_audio \in BOOLEAN : NothingToSpeak(e.history, ref_audio)
       /\ turn_state' = [turn_state EXCEPT ![e.turn] = "NoAudio"]
    /\ audio_output_chat' = None
    /\ pending_audio' = Tail(pending_audio)
    /\ UNCHANGED <<conversation_state, chatbot_interface, system_prompt_chat,
                   pending_process, pa, ga, nreq, gen_calls, generated>>
    /\ UNCHANGED text_vars

\* Lines 280-293: infer is called with last_ai_response
AudioBegin ==
    /\ ga.pc = "idle"
    /\ pending_audio # <<>>
    /\ LET e == Head(pending_audio) IN
       /\ ~NothingToSpeak(e.history, TRUE)
       /\ ga' = [pc |-> "synth", turn |-> e.turn,
                 text |-> Last(e.history)[2][1]]
       /\ turn_state' = [turn_state EXCEPT ![e.turn] = "SynthesizingAudio"]
    /\ pending_audio' = Tail(pending_audio)
    /\ UNCHANGED <<conversation_state, chatbot_interface, system_prompt_chat,
                   audio_output_chat, pending_process, pa, nreq, gen_calls,
                   generated>>
    /\ UNCHANGED text_vars

\* Line 294: the audio of the reply is handed to the page
InferReturn ==
    /\ ga.pc = "synth"
    /\ audio_output_chat' = Some(ga.text)
    /\ turn_state' = [turn_state EXCEPT ![ga.turn] = "Spoken"]
    /\ ga' = IdleAudio
    /\ UNCHANGED <<conversation_state, chatbot_interface, system_prompt_chat,
                   pending_process, pending_audio, pa, nreq, gen_calls,
                   generated>>
    /\ UNCHANGED text_vars

\* a synthesis failure that rolls the textual turn back
InferFail_rollback ==
    /\ ga.pc = "synth"
    /\ turn_state' = [turn_state EXCEPT ![ga.turn] = "SynthesisError"]
    /\ ga' = IdleAudio
    /\ conversation_state' =
          SubSeq(conversation_state, 1, Len(conversation_state) - 1)
    /\ chatbot_interface' =
          SubSeq(chatbot_interface, 1, Len(chatbot_interface) - 1)
    /\ UNCHANGED <<system_prompt_chat, audio_output_chat, pending_process,
                   pending_audio, pa, nreq, gen_calls, generated>>
    /\ UNCHANGED text_vars

\* infer raises: generate_audio_response returns nothing
InferFail ==
    /\ ga.pc = "synth"
    /\ turn_state' = [turn_state EXCEPT ![ga.turn] = "SynthesisError"]
    /\ ga' = IdleAudio
    /\ UNCHANGED <<conversation_state, chatbot_interface, system_prompt_chat,
                   audio_output_chat, pending_process, pending_audio, pa,
                   nreq, gen_calls, generated>>
    /\ UNCHANGED text_vars

----------------------------------------------------------------------------
(* Resets *)

\* The session gets a new list: the list a running call of
\* process_audio_input holds is no longer the session's.
Detached == [pa EXCEPT !.is_session = FALSE]

\* clear_btn_chat.click
clear_conversation ==
    /\ chatbot_interface' = <<>>
    /\ conversation_state' = <<Message("system", DEFAULT_SYSTEM_PROMPT)>>
    /\ pa' = Detached
    /\ UNCHANGED <<system_prompt_chat, audio_output_chat, pending_process,
                   pending_audio, ga, nreq, turn_state, gen_calls,
                   generated>>
    /\ UNCHANGED text_vars

\* system_prompt_chat.change: the user edits the system prompt box
update_system_prompt(new_prompt) ==
    /\ new_prompt # system_prompt_chat
    /\ system_prompt_chat' = new_prompt
    /\ chatbot_interface' = <<>>
    /\ conversation_state' = <<Message("system", new_prompt)>>
    /\ pa' = Detached
    /\ UNCHANGED <<audio_output_chat, pending_process, pending_audio, ga,
                   nreq, turn_state, gen_calls, generated>>
    /\ UNCHANGED text_vars

----------------------------------------------------------------------------

Next ==
    \/ \E tr \in Triggers, audio_path \in AudioPaths, text \in UserTexts :
          TurnRequest(tr, audio_path, text)
    \/ ProcessReturnEmpty
    \/ ProcessBegin
    \/ ProcessTranscribe
    \/ \E text \in Transcripts : TranscribeReturnEmpty(text)
    \/ ProcessInputFail
    \/ \E text \in Transcripts : TranscribeReturn(text)
    \/ \E response \in Replies : GenerateReturn(response)
    \/ GenerateFail
    \/ AudioSkip
    \/ AudioBegin
    \/ InferReturn
    \/ InferFail
    \/ clear_conversation
    \/ \E new_prompt \in Prompts : update_system_prompt(new_prompt)

Spec == Init /\ [][Next]_vars

----------------------------------------------------------------------------
(* Vocabulary of the properties *)

\* No call is running or queued: every session operation raised has finished
Quiescent ==
    /\ pa.pc = "idle"
    /\ ga.pc = "idle"
    /\ pending_process = <<>>
    /\ pending_audio = <<>>

CeilHalf(n) == (n + 1) \div 2

\* every character is white space (the empty text included)
IsBlank(text) == \A i \in 1..Len(text) : IsSpace(text[i])

\* The step of turn k from Turn Controller state `from` to state `to`
TurnStep(k, from, to) == turn_state[k] = from /\ turn_state'[k] = to

\* A reset: the only steps that move neither a turn nor the request count
ResetStep ==
    /\ turn_state' = turn_state
    /\ nreq' = nreq
    /\ vars' # vars

----------------------------------------------------------------------------
(* C1 .. C10 *)

\* C1: whenever every operation raised has finished, the Transcript has one
\* entry per user message of the log:
\* Len(Transcript) = ceil((Len(Conversation Log) - 1) / 2).
C1_LengthRelation ==
    Quiescent =>
        Len(chatbot_interface) = CeilHalf(Len(conversation_state) - 1)

\* C2: only the last Transcript entry may have an empty assistant_text
\* (None or ""); no earlier entry is pending.
C2_OnlyLastPending ==
    \A i \in 1..(Len(chatbot_interface) - 1) :
        ~IsFalsy(chatbot_interface[i][2])

\* C3: the Conversation Log is never empty, its first message is the system
\* message and no later message has role system.
C3_OneSystemMessage ==
    /\ Len(conversation_state) >= 1
    /\ conversation_state[1].role = "system"
    /\ \A i \in 2..Len(conversation_state) :
          conversation_state[i].role # "system"

\* C3 witness: after a prompt change and a completed turn the log holds the
\* system message followed by a user and an assistant message.
C3_Witness ==
    /\ system_prompt_chat # DEFAULT_SYSTEM_PROMPT
    /\ Len(conversation_state) >= 3
    /\ conversation_state[1] = Message("system", system_prompt_chat)
    /\ conversation_state[2].role = "user"
    /\ conversation_state[3].role = "assistant"

\* C4: when generate_response fails, the turn ends with the process stage
\* idle, the user message last in the log (no assistant message), the
\* turn's pending entry (text, None) last in the Transcript, and exactly one
\* call of generate_response made for the turn.
C4_GenerationFailure ==
    [][\A k \in Turns :
          TurnStep(k, "GeneratingReply", "GenerationError") =>
             /\ pa'.pc = "idle"
             /\ Last(conversation_state') = Message("user", pa.text)
             /\ gen_calls'[k] = 1
             /\ chatbot_interface' # <<>>
             /\ Last(chatbot_interface') = <<pa.text, None>>]_vars

\* C5: when infer fails for a turn whose reply was generated, the failure
\* leaves the Conversation Log and the Transcript as they are (the reply text
\* stays in both), no audio is handed out, the text that was being
\* synthesized is that turn's reply, and the audio stage is idle again with
\* the process stage untouched, so the next turn is accepted.
C5_SynthesisFailure ==
    [][\A k \in Turns :
          (TurnStep(k, "SynthesizingAudio", "SynthesisError")
              /\ generated[k] # None) =>
             /\ conversation_state' = conversation_state
             /\ chatbot_interface' = chatbot_interface
             /\ audio_output_chat' = audio_output_chat
             /\ generated[k] = Some(ga.text)
             /\ ga'.pc = "idle"
             /\ pa' = pa
             /\ pending_process' = pending_process]_vars

\* C5 witness: synthesis of turn k's reply has failed, the log ends with
\* that reply's assistant message, the last Transcript entry holds it, no
\* audio was handed out, and a further turn request can still be raised.
C5_Witness ==
    \E k \in Turns :
        /\ turn_state[k] = "SynthesisError"
        /\ generated[k] # None
        /\ Last(conversation_state) = Message("assistant", generated[k][1])
        /\ chatbot_interface # <<>>
        /\ Last(chatbot_interface)[2] = generated[k]
        /\ audio_output_chat = None
        /\ Quiescent
        /\ nreq < MaxTurns

\* C6: a turn request with no audio and a blank text ends as an empty turn
\* that is a no-op: the step in which the handler runs leaves the
\* Conversation Log and the Transcript exactly as they were, calls
\* generate_response for no turn, and the process stage is idle afterwards.
C6_EmptyTurnNoOp ==
    [][(/\ pending_process # <<>>
        /\ pending_process' = Tail(pending_process)
        /\ IsFalsy(Head(pending_process).audio_path)
        /\ IsBlank(Head(pending_process).text)) =>
          /\ turn_state'[Head(pending_process).turn] = "Empty"
          /\ conversation_state' = conversation_state
          /\ chatbot_interface' = chatbot_interface
          /\ gen_calls' = gen_calls
          /\ generated' = generated
          /\ pa'.pc = "idle"]_vars

\* C7: at most one turn is in GeneratingReply or SynthesizingAudio at a time.
C7_OneTurnInFlight ==
    Cardinality({k \in Turns :
        turn_state[k] \in {"GeneratingReply", "SynthesizingAudio"}}) <= 1

\* C8: whenever infer is running for a turn request, that request's own
\* generate_response call has returned and the text being synthesized is
\* the reply it returned.
C8_SynthesisOfOwnReply ==
    ga.pc = "synth" => generated[ga.turn] = Some(ga.text)

\* C9: a reset leaves the Transcript empty and the Conversation Log equal to
\* the single system message holding the current system prompt.
C9_ResetToCurrentPrompt ==
    [][ResetStep =>
          /\ chatbot_interface' = <<>>
          /\ conversation_state' =
                <<Message("system", system_prompt_chat')>>]_vars

----------------------------------------------------------------------------
(* C11, C13, C18 .. C20: the session *)

IsPrefix(a, b) == Len(a) <= Len(b) /\ SubSeq(b, 1, Len(a)) = a

\* The positions of the user messages of a log, in order
RECURSIVE UserPositions(_, _)
UserPositions(log, i) ==
    IF i > Len(log) THEN <<>>
    ELSE IF log[i].role = "user" THEN <<i>> \o UserPositions(log, i + 1)
    ELSE UserPositions(log, i + 1)

\* C11: every step that is not a reset leaves the Conversation Log it
\* found as a prefix of the log it leaves: no message is removed, reordered
\* or rewritten by a turn.
C11_AppendOnly ==
    [][~ResetStep => IsPrefix(conversation_state, conversation_state')]_vars

\* C13: every user message of the Conversation Log has non-blank content,
\* and a call that reached generate_response carries a non-blank text with
\* its pending Transcript entry.
C13_NonBlankUserMessages ==
    /\ \A i \in 1..Len(conversation_state) :
          conversation_state[i].role = "user" =>
             ~IsBlank(conversation_state[i].content)
    /\ pa.pc = "generating" =>
          /\ ~IsBlank(pa.text)
          /\ Last(pa.conv_state) = Message("user", pa.text)
          /\ Last(pa.history) = <<pa.text, None>>

\* C13 witness: a blank request ended as an empty turn, and a recording
\* whose transcription is non-blank started a turn.
C13_Witness ==
    /\ turn_state[1] = "Empty"
    /\ turn_state[2] = "GeneratingReply"
    /\ pa.trigger = "stop_recording"
    /\ Len(conversation_state) = 2
    /\ conversation_state[2] = Message("user", <<"h">>)

\* C18: after the system message the log alternates user, assistant,
\* user, ... starting with user.
C18_Alternation ==
    \A i \in 2..Len(conversation_state) :
        conversation_state[i].role =
            (IF i % 2 = 0 THEN "user" ELSE "assistant")

\* C19: when a call of process_audio_input ends after a reset replaced the
\* session's log during the call, the reset stands: the log keeps the
\* system message the reset installed and neither the log nor the
\* Transcript gets back anything older than the reset (at most the reply of
\* the ending call is added).
C19_ResetNotUndone ==
    [][(/\ pa.pc # "idle"
        /\ pa'.pc = "idle"
        /\ ~pa.is_session) =>
          /\ conversation_state'[1] = conversation_state[1]
          /\ Len(conversation_state') <= Len(conversation_state) + 1
          /\ Len(chatbot_interface') <= Len(chatbot_interface) + 1]_vars

\* C20: whenever every operation raised has finished, the i-th Transcript
\* entry holds the content of the i-th user message of the log and, when
\* its assistant_text is filled, the content of the assistant message that
\* immediately follows that user message.
C20_TranscriptMatchesLog ==
    Quiescent =>
        LET up == UserPositions(conversation_state, 1) IN
        \A i \in 1..Len(chatbot_interface) :
            /\ i <= Len(up)
            /\ conversation_state[up[i]].content = chatbot_interface[i][1]
            /\ ~IsFalsy(chatbot_interface[i][2]) =>
                  /\ up[i] + 1 <= Len(conversation_state)
                  /\ conversation_state[up[i] + 1] =
                        Message("assistant", chatbot_interface[i][2][1])

----------------------------------------------------------------------------
(* Characters *)

MaxTextLen == 3

MaxScriptLen == 7

\* All texts over the alphabet S with at most n characters
TextsUpTo(S, n) == UNION {[1..k -> S] : k \in 0..n}

\* [a-z]
LowerLetters == {
    "a", "b", "c", "d", "e", "f", "g", "h", "i", "j", "k", "l", "m",
    "n", "o", "p", "q", "r", "s", "t", "u", "v", "w", "x", "y", "z"}

\* [A-Z]
UpperLetters == {
    "A", "B", "C", "D", "E", "F", "G", "H", "I", "J", "K", "L", "M",
    "N", "O", "P", "Q", "R", "S", "T", "U", "V", "W", "X", "Y", "Z"}

\* [A-Za-z]
IsAsciiLetter(c) == c \in LowerLetters \cup UpperLetters

\* Letters outside [A-Za-z] that occur in the texts of the model
AccentedLetters == {"ñ", "ó"}

IsLetter(c) == IsAsciiLetter(c) \/ c \in AccentedLetters

\* \d
IsDigit(c) == c \in {"0", "1", "2", "3", "4", "5", "6", "7", "8", "9"}

\* \w: letters, digits and the underscore
IsWordChar(c) == IsLetter(c) \/ IsDigit(c) \/ c = "_"

\* \b between s[p] and s[p+1]; outside the text there is no word character
WordBoundary(s, p) ==
    LET before == IF p >= 1 THEN IsWordChar(s[p]) ELSE FALSE
        after == IF p + 1 <= Len(s) THEN IsWordChar(s[p + 1]) ELSE FALSE
    IN before # after

AsciiUpper == <<"A", "B", "C", "D", "E", "F", "G", "H", "I", "J", "K", "L", "M",
                "N", "O", "P", "Q", "R", "S", "T", "U", "V", "W", "X", "Y", "Z">>

AsciiLower == <<"a", "b", "c", "d", "e", "f", "g", "h", "i", "j", "k", "l", "m",
                "n", "o", "p", "q", "r", "s", "t", "u", "v", "w", "x", "y", "z">>

\* str.lower() of one character
LowerChar(c) ==
    IF c \in UpperLetters
    THEN AsciiLower[CHOOSE i \in 1..26 : AsciiUpper[i] = c]
    ELSE c

\* str.lower()
lower(s) == [i \in 1..Len(s) |-> LowerChar(s[i])]

startswith(s, prefix) ==
    Len(s) >= Len(prefix) /\ SubSeq(s, 1, Len(prefix)) = prefix

endswith(s, suffix) ==
    Len(s) >= Len(suffix)
    /\ SubSeq(s, Len(s) - Len(suffix) + 1, Len(s)) = suffix

----------------------------------------------------------------------------
(* traducir_numero_a_texto *)

\* The words of num2words(..., lang='es') the model needs
W_CERO == <<"c", "e", "r", "o">>

W_DOS == <<"d", "o", "s">>

W_VEINTE == <<"v", "e", "i", "n", "t", "e">>

W_VEINTIDOS == <<"v", "e", "i", "n", "t", "i", "d", "ó", "s">>

W_DOSCIENTOS == <<"d", "o", "s", "c", "i", "e", "n", "t", "o", "s">>

W_MIL == <<"m", "i", "l">>

DigitValue(c) ==
    CASE c = "0" -> 0 [] c = "1" -> 1 [] c = "2" -> 2 [] c = "3" -> 3
      [] c = "4" -> 4 [] c = "5" -> 5 [] c = "6" -> 6 [] c = "7" -> 7
      [] c = "8" -> 8 [] c = "9" -> 9

\* int(numero)
RECURSIVE int(_)
int(numero) ==
    IF numero = <<>> THEN 0
    ELSE 10 * int(SubSeq(numero, 1, Len(numero) - 1))
         + DigitValue(numero[Len(numero)])

\* a b, joined by one space when both are non-empty
JoinWords(a, b) ==
    IF a = <<>> THEN b ELSE IF b = <<>> THEN a ELSE a \o <<" ">> \o b

\* Spanish cardinal of n < 100 written with the digits 0 and 2 ("" for 0)
Below100(n) ==
    CASE n = 0 -> <<>>
      [] n = 2 -> W_DOS
      [] n = 20 -> W_VEINTE
      [] n = 22 -> W_VEINTIDOS

\* num2words(n, lang='es') for the numbers below 100000 whose decimal digits
\* are 0 and 2, the numbers the texts of the model can hold
num2words(n) ==
    IF n = 0 THEN W_CERO
    ELSE LET thousands == n \div 1000
             hundreds == (n % 1000) \div 100
             rest == n % 100
         IN JoinWords(
              IF thousands = 0 THEN <<>>
              ELSE Below100(thousands) \o <<" ">> \o W_MIL,
              JoinWords(IF hundreds = 0 THEN <<>> ELSE W_DOSCIENTOS,
                        Below100(rest)))

\* a first substitution that splits after a letter whatever follows
RECURSIVE sub_letter_any(_)
sub_letter_any(s) ==
    IF Len(s) < 2 THEN s
    ELSE IF IsAsciiLetter(s[1])
         THEN <<s[1], " ", s[2]>> \o sub_letter_any(SubSeq(s, 3, Len(s)))
         ELSE <<s[1]>> \o sub_letter_any(Tail(s))

\* re.sub(r'([A-Za-z])(\d)', r'\1 \2', texto)
RECURSIVE sub_letter_digit(_)
sub_letter_digit(s) ==
    IF Len(s) < 2 THEN s
    ELSE IF IsAsciiLetter(s[1]) /\ IsDigit(s[2])
         THEN <<s[1], " ", s[2]>> \o sub_letter_digit(SubSeq(s, 3, Len(s)))
         ELSE <<s[1]>> \o sub_letter_digit(Tail(s))

\* re.sub(r'(\d)([A-Za-z])', r'\1 \2', texto_separado)
RECURSIVE sub_digit_letter(_)
sub_digit_letter(s) ==
    IF Len(s) < 2 THEN s
    ELSE IF IsDigit(s[1]) /\ IsAsciiLetter(s[2])
         THEN <<s[1], " ", s[2]>> \o sub_digit_letter(SubSeq(s, 3, Len(s)))
         ELSE <<s[1]>> \o sub_digit_letter(Tail(s))

\* The end of the run of digits that starts at position i
RECURSIVE DigitRunEnd(_, _)
DigitRunEnd(s, i) ==
    IF i + 1 <= Len(s)
    THEN (IF IsDigit(s[i + 1]) THEN DigitRunEnd(s, i + 1) ELSE i)
    ELSE i

\* \b\d+\b matches at position i.  \d+ is greedy and a shorter run never
\* ends at a \b, so the match is the whole run or nothing.
NumberMatchesAt(s, i) ==
    IF IsDigit(s[i])
    THEN WordBoundary(s, i - 1) /\ WordBoundary(s, DigitRunEnd(s, i))
    ELSE FALSE

\* reemplazar_numero
reemplazar_numero(numero) == num2words(int(numero))

\* a number substitution that ignores the word boundaries: \d+
RECURSIVE sub_numbers_unbounded(_, _)
sub_numbers_unbounded(s, i) ==
    IF i > Len(s) THEN <<>>
    ELSE IF IsDigit(s[i])
         THEN reemplazar_numero(SubSeq(s, i, DigitRunEnd(s, i)))
              \o sub_numbers_unbounded(s, DigitRunEnd(s, i) + 1)
         ELSE <<s[i]>> \o sub_numbers_unbounded(s, i + 1)

\* re.sub(r'\b\d+\b', reemplazar_numero, texto_separado), from position i
RECURSIVE sub_numbers(_, _)
sub_numbers(s, i) ==
    IF i > Len(s) THEN <<>>
    ELSE IF NumberMatchesAt(s, i)
         THEN reemplazar_numero(SubSeq(s, i, DigitRunEnd(s, i)))
              \o sub_numbers(s, DigitRunEnd(s, i) + 1)
         ELSE <<s[i]>> \o sub_numbers(s, i + 1)

traducir_numero_a_texto(texto) ==
    sub_numbers(sub_digit_letter(sub_letter_digit(texto)), 1)

----------------------------------------------------------------------------
(* infer: the text handed to infer_process *)

\* a shaping that closes the text with "." only
infer_gen_text_short_suffix(gen_text) ==
    LET spaced == IF startswith(gen_text, <<" ">>) THEN gen_text
                  ELSE <<" ">> \o gen_text
        closed == IF endswith(spaced, <<".">>) THEN spaced
                  ELSE spaced \o <<".">>
    IN traducir_numero_a_texto(lower(closed))

\* Lines 93-99
infer_gen_text(gen_text) ==
    LET spaced == IF startswith(gen_text, <<" ">>) THEN gen_text
                  ELSE <<" ">> \o gen_text
        closed == IF endswith(spaced, <<".", " ">>) THEN spaced
                  ELSE spaced \o <<".", " ">>
    IN traducir_numero_a_texto(lower(closed))

----------------------------------------------------------------------------
(* The text helpers applied to every text of bounded length *)

NormChars == {" ", ".", "_", "a", "B", "ñ", "0", "2"}

NormTexts == TextsUpTo(NormChars, MaxTextLen)

NormInit ==
    /\ SessionInit
    /\ txt_op = "input"
    /\ txt_in \in NormTexts
    /\ txt_out = <<>>

Call_traducir_numero_a_texto ==
    /\ txt_op = "input"
    /\ txt_op' = "traducir_numero_a_texto"
    /\ txt_out' = traducir_numero_a_texto(txt_in)
    /\ UNCHANGED <<txt_in, session_vars>>

Call_infer ==
    /\ txt_op = "input"
    /\ txt_op' = "infer"
    /\ txt_out' = infer_gen_text(txt_in)
    /\ UNCHANGED <<txt_in, session_vars>>

NormNext ==
    \/ Call_traducir_numero_a_texto
    \/ Call_infer

NormSpec == NormInit /\ [][NormNext]_vars

HasDigit(s) ==
    \E i \in 1..Len(s) : s[i] \in {"0", "1", "2", "3", "4", "5", "6", "7", "8", "9"}

\* positions i..j hold a run of digits with a word boundary on both sides
BoundedDigitRun(s, i, j) ==
    /\ \A k \in i..j : IsDigit(s[k])
    /\ WordBoundary(s, i - 1)
    /\ WordBoundary(s, j)

\* C12: the text infer hands to infer_process starts with a space, ends
\* with ". " and holds no run of digits bounded by word boundaries.
C12_SynthesisTextShape ==
    txt_op = "infer" =>
        /\ startswith(txt_out, <<" ">>)
        /\ endswith(txt_out, <<".", " ">>)
        /\ ~\E i \in 1..Len(txt_out) : \E j \in i..Len(txt_out) :
               BoundedDigitRun(txt_out, i, j)

\* C12 witness: the reply "B2" reaches infer_process as " b dos. "
C12_Witness ==
    /\ txt_op = "infer"
    /\ txt_in = <<"B", "2">>
    /\ txt_out = <<" ", "b", " ", "d", "o", "s", ".", " ">>

\* C14: a text without a digit comes back from traducir_numero_a_texto
\* unchanged.
C14_NoDigitsUnchanged ==
    (txt_op = "traducir_numero_a_texto" /\ ~HasDigit(txt_in)) =>
        txt_out = txt_in

\* C14 witness: a text of letters, spaces and points came back as it was
C14_Witness ==
    /\ txt_op = "traducir_numero_a_texto"
    /\ txt_in = <<"a", "B", ".">>
    /\ txt_out = txt_in

\* C15: the text traducir_numero_a_texto returns holds no digit next to a
\* letter.
C15_NoDigitNextToLetter ==
    txt_op = "traducir_numero_a_texto" =>
        \A i \in 1..(Len(txt_out) - 1) :
            /\ ~(IsLetter(txt_out[i]) /\ IsDigit(txt_out[i + 1]))
            /\ ~(IsDigit(txt_out[i]) /\ IsLetter(txt_out[i + 1]))

----------------------------------------------------------------------------
(* parse_speechtypes_text *)

REGULAR == <<"R", "e", "g", "u", "l", "a", "r">>

\* The least position >= from that holds character c, or 0
RECURSIVE IndexOf(_, _, _)
IndexOf(s, c, from) ==
    IF from > Len(s) THEN 0
    ELSE IF s[from] = c THEN from ELSE IndexOf(s, c, from + 1)

\* re.split(r"\{(.*?)\}", gen_text): text, label, text, ..., text.  The
\* leftmost match opens at the first "{" and closes at the first "}" after
\* it ("." stands for any character of a one-line script).
RECURSIVE re_split(_)
re_split(s) ==
    LET open == IndexOf(s, "{", 1)
        close == IF open = 0 THEN 0 ELSE IndexOf(s, "}", open + 1)
    IN IF close = 0 THEN <<s>>
       ELSE <<SubSeq(s, 1, open - 1), SubSeq(s, open + 1, close - 1)>>
            \o re_split(SubSeq(s, close + 1, Len(s)))

\* a loop that skips an empty label and keeps the style it had
RECURSIVE parse_loop_sticky_style(_, _, _)
parse_loop_sticky_style(tokens, i, current_style) ==
    IF i > Len(tokens) THEN <<>>
    ELSE IF i % 2 = 1
         THEN LET text == strip(tokens[i]) IN
              (IF text # <<>>
               THEN <<[style |-> current_style, text |-> text]>>
               ELSE <<>>)
              \o parse_loop_sticky_style(tokens, i + 1, current_style)
         ELSE parse_loop_sticky_style(tokens, i + 1,
                 IF strip(tokens[i]) # <<>> THEN strip(tokens[i])
                 ELSE current_style)

\* a loop that appends the text without trimming it
RECURSIVE parse_loop_untrimmed(_, _, _)
parse_loop_untrimmed(tokens, i, current_style) ==
    IF i > Len(tokens) THEN <<>>
    ELSE IF i % 2 = 1
         THEN (IF tokens[i] # <<>>
               THEN <<[style |-> current_style, text |-> tokens[i]]>>
               ELSE <<>>)
              \o parse_loop_untrimmed(tokens, i + 1, current_style)
         ELSE parse_loop_untrimmed(tokens, i + 1, strip(tokens[i]))

\* Lines 140-149, from token i on (tokens are numbered from 1 here, so the
\* odd ones are text)
RECURSIVE parse_loop(_, _, _)
parse_loop(tokens, i, current_style) ==
    IF i > Len(tokens) THEN <<>>
    ELSE IF i % 2 = 1
         THEN LET text == strip(tokens[i]) IN
              (IF text # <<>>
               THEN <<[style |-> current_style, text |-> text]>>
               ELSE <<>>)
              \o parse_loop(tokens, i + 1, current_style)
         ELSE parse_loop(tokens, i + 1, strip(tokens[i]))

parse_speechtypes_text(gen_text) == parse_loop(re_split(gen_text), 1, REGULAR)

ScriptChars == {"{", "}", "a", "b", " "}

Scripts == TextsUpTo(ScriptChars, MaxScriptLen)

ParseInit ==
    /\ SessionInit
    /\ txt_op = "input"
    /\ txt_in \in Scripts
    /\ txt_out = <<>>

Call_parse_speechtypes_text ==
    /\ txt_op = "input"
    /\ txt_op' = "parse_speechtypes_text"
    /\ txt_out' = parse_speechtypes_text(txt_in)
    /\ UNCHANGED <<txt_in, session_vars>>

ParseNext == Call_parse_speechtypes_text

ParseSpec == ParseInit /\ [][ParseNext]_vars

\* The positions, in script order, of the text spans that are not blank
RECURSIVE SpokenSpans(_, _)
SpokenSpans(tokens, i) ==
    IF i > Len(tokens) THEN <<>>
    ELSE IF ~IsBlank(tokens[i]) THEN <<i>> \o SpokenSpans(tokens, i + 2)
    ELSE SpokenSpans(tokens, i + 2)

\* C16 as stated: the segments are the non-blank text spans in script
\* order, each labelled with the content of the tag just before it, or with
\* "Regular" when it precedes every tag.
C16_LabelIsTagContent ==
    txt_op = "parse_speechtypes_text" =>
        LET tokens == re_split(txt_in)
            spans == SpokenSpans(tokens, 1)
        IN /\ Len(txt_out) = Len(spans)
           /\ \A n \in 1..Len(spans) :
                 /\ txt_out[n].text = strip(tokens[spans[n]])
                 /\ txt_out[n].style =
                       (IF spans[n] = 1 THEN REGULAR
                        ELSE tokens[spans[n] - 1])

\* C16 amended: the segments are the non-blank text spans in script order,
\* each labelled with the TRIMMED content of the tag just before it, or with
\* "Regular" when it precedes every tag; a tag with no text after it gives
\* no segment.
C16_LabelIsTrimmedTagContent ==
    txt_op = "parse_speechtypes_text" =>
        LET tokens == re_split(txt_in)
            spans == SpokenSpans(tokens, 1)
        IN /\ Len(txt_out) = Len(spans)
           /\ \A n \in 1..Len(spans) :
                 /\ txt_out[n].text = strip(tokens[spans[n]])
                 /\ txt_out[n].style =
                       (IF spans[n] = 1 THEN REGULAR
                        ELSE strip(tokens[spans[n] - 1]))

\* C16 witness: in "{a}{b}a" the tag {a} has no text and the text "a" is
\* labelled b.
C16_Witness ==
    /\ txt_op = "parse_speechtypes_text"
    /\ txt_in = <<"{", "a", "}", "{", "b", "}", "a">>
    /\ txt_out = <<[style |-> <<"b">>, text |-> <<"a">>]>>

\* C17: no segment has an empty text or a text that starts or ends with
\* white space, and a script whose text spans are all blank gives no
\* segment.
C17_NoBlankSegments ==
    txt_op = "parse_speechtypes_text" =>
        /\ \A n \in 1..Len(txt_out) :
              /\ txt_out[n].text # <<>>
              /\ ~IsSpace(Head(txt_out[n].text))
              /\ ~IsSpace(Last(txt_out[n].text))
        /\ (\A i \in 1..Len(txt_in) :
               IsSpace(txt_in[i])
               \/ \E o \in 1..i : \E c \in i..Len(txt_in) :
                     /\ txt_in[o] = "{"
                     /\ txt_in[c] = "}"
                     /\ \A k \in (o + 1)..(c - 1) : txt_in[k] # "}")
           => txt_out = <<>>

\* C17 witness: " a {} " gives the single segment "a", trimmed, and nothing
\* for the blank span after the tag.
C17_Witness ==
    /\ txt_op = "parse_speechtypes_text"
    /\ txt_in = <<" ", "a", " ", "{", "}", " ">>
    /\ txt_out = <<[style |-> REGULAR, text |-> <<"a">>]>>

====
